---- MODULE Spec2Model ----
(***************************************************************************)
(* easyfolder: a Folder (directory-backed registry of File and Pipeline    *)
(* handles), File (facade for one on-disk artifact with plug-in callables) *)
(* and Pipeline (ordered sequence of Files fitted together).               *)
(* Model of src/folder.py and src/utils.py.                                *)
(*                                                                         *)
(* Python objects have identity: File and Pipeline objects live in the     *)
(* heaps fileObjs / pipeObjs and are referred to by their index.  Each     *)
(* action is one call made by the calling script; ret records what the     *)
(* call returned or raised and calls records, in order, the plug-in        *)
(* callables the call invoked.                                             *)
(***************************************************************************)
EXTENDS Integers, Sequences, FiniteSets, TLC

VARIABLES
    disk,       \* filesystem: path -> entry
    fileObjs,   \* heap of File objects, a File's identity is its index
    pipeObjs,   \* heap of Pipeline objects
    files,      \* Folder.files: list of File references
    pipelines,  \* Folder.pipelines: dict key -> Pipeline reference
    ret,        \* outcome of the last call
    calls       \* plug-in callables invoked by the last call, in order

vars == <<disk, fileObjs, pipeObjs, files, pipelines, ret, calls>>

----------------------------------------------------------------------------
(* Bounds *)

MaxNames == 2      \* distinct attribute names accessed on the Folder
MaxFiles == 2      \* File objects created over a run
MaxKeys == 2       \* distinct pipeline keys used on the Folder
MaxPipeLen == 2    \* members passed to Pipeline.construct
MaxVal == 1        \* integer payloads are 0..MaxVal

NameOf == <<"a", "b", "c", "d">>
KeyOf == <<"p", "q", "r", "s">>
Names == {NameOf[i] : i \in 1..MaxNames}
Keys == {KeyOf[i] : i \in 1..MaxKeys}

----------------------------------------------------------------------------
(* Python values *)

PyNone == <<"None">>
PyInt(v) == <<"int", v>>
PyTuple(s) == <<"tuple", s>>
FileRef(f) == <<"File", f>>
PipelineRef(p) == <<"Pipeline", p>>

Payloads == {PyInt(v) : v \in 0..MaxVal}
Inputs == {<<>>} \cup {<<PyInt(v)>> : v \in 0..MaxVal}

Range(s) == {s[i] : i \in DOMAIN s}

\* list.remove(x): drops the first element equal to x
ListRemove(s, x) ==
    LET hit == {i \in DOMAIN s : s[i] = x}
        first == CHOOSE i \in hit : \A j \in hit : i <= j
    IN  IF hit = {} THEN s
        ELSE [i \in 1..(Len(s) - 1) |-> IF i < first THEN s[i] ELSE s[i + 1]]

----------------------------------------------------------------------------
(* Paths and the filesystem *)

RECURSIVE Resolve(_, _)
Resolve(todo, done) ==
    IF todo = <<>> THEN done
    ELSE IF Head(todo) = "." THEN Resolve(Tail(todo), done)
    ELSE IF Head(todo) = ".."
         THEN Resolve(Tail(todo),
                      IF done = <<>> THEN done ELSE SubSeq(done, 1, Len(done) - 1))
    ELSE Resolve(Tail(todo), Append(done, Head(todo)))

\* os.path.join of a directory path and one name; paths are component lists
Join(parent, name) == Append(parent, name)
\* os.path.realpath on a filesystem without symbolic links
Realpath(p) == Resolve(p, <<>>)

ParentPath == <<"tmp">>
FolderName == "proj"
FolderPath == Realpath(Join(ParentPath, FolderName))

Absent == <<"absent">>
Dir == <<"dir">>
RegularFile(bytes) == <<"file", bytes>>

\* os.getcwd() of the calling script, and a path at which nothing exists
Cwd == ParentPath
MissingPath == <<"nowhere">>

FilePaths == {Realpath(Join(FolderPath, n)) : n \in Names}

AllPaths ==
    {ParentPath, FolderPath}
    \cup {Realpath(Join(p, n)) : p \in {ParentPath, FolderPath}, n \in Names \cup {FolderName}}

Exists(d, p) == p \in DOMAIN d /\ d[p] # Absent

\* pickle.dumps / pickle.loads
PickleDumps(obj) == <<"pickle", obj>>
PickleLoads(bytes) == bytes[2]

Ok(val, d, cs) == [exc |-> "", why |-> "", val |-> val, disk |-> d, calls |-> cs]
Raise(exc, why, d, cs) == [exc |-> exc, why |-> why, val |-> PyNone, disk |-> d, calls |-> cs]

\* utils.pic_save: open(file, 'wb') then pickle.dump
pic_save(d, file, obj) ==
    IF ~Exists(d, SubSeq(file, 1, Len(file) - 1))
    THEN Raise("FileNotFoundError", "open", d, <<>>)
    ELSE IF d[file] = Dir
    THEN Raise("IsADirectoryError", "open", d, <<>>)
    ELSE Ok(PyNone, [d EXCEPT ![file] = RegularFile(PickleDumps(obj))], <<>>)

\* utils.pic_load: open(file, 'rb') then pickle.load
pic_load(d, file) ==
    IF ~Exists(d, file)
    THEN Raise("FileNotFoundError", "open", d, <<>>)
    ELSE IF d[file] = Dir
    THEN Raise("IsADirectoryError", "open", d, <<>>)
    ELSE Ok(PickleLoads(d[file][2]), d, <<>>)

----------------------------------------------------------------------------
(* Folder *)

Result(op, self, args, e) ==
    [op |-> op, self |-> self, args |-> args, exc |-> e.exc, why |-> e.why, val |-> e.val]

FolderRef(name, path) == <<"Folder", path, name>>

\* variant of Folder_make that calls os.makedirs without testing for existence
Folder_make_noTest(d, path) ==
    IF Exists(d, path)
    THEN Raise("FileExistsError", "makedirs", d, <<>>)
    ELSE Ok(PyNone, [d EXCEPT ![path] = Dir], <<>>)

\* Folder._make; why carries the line it prints
Folder_make(d, path) ==
    IF ~Exists(d, path)
    THEN Ok(PyNone, [d EXCEPT ![path] = Dir], <<>>)
    ELSE [Ok(PyNone, d, <<>>) EXCEPT !.why = "Already exists"]

\* Folder.__init__
Folder_init(d, name, parent_path) ==
    LET parent == IF parent_path = PyNone THEN Cwd ELSE parent_path
        path == Realpath(Join(parent, name))
        m == Folder_make(d, path)
    IN  IF parent_path # PyNone /\ ~Exists(d, parent_path)
        THEN Raise("IOError", "Parent path doesn't exist", d, <<>>)
        ELSE IF m.exc # "" THEN m
        ELSE [m EXCEPT !.val = FolderRef(name, path)]

\* names and parent paths the script constructs further Folders with
FolderNames == {FolderName} \cup Names
ParentArgs == {PyNone, ParentPath, FolderPath, MissingPath}

\* Folder(name, parent_path): a further Folder object is constructed; the
\* registry in files / pipelines stays that of the first Folder
FolderInit ==
    \E name \in FolderNames, parent_path \in ParentArgs :
        LET e == Folder_init(disk, name, parent_path)
        IN  /\ ret' = Result("Folder.__init__", 0, <<name, parent_path>>, e)
            /\ disk' = e.disk
            /\ calls' = <<>>
            /\ UNCHANGED <<fileObjs, pipeObjs, files, pipelines>>

\* variant of NewFile that resolves the path against the working directory
NewFile_cwdPath(name, parent_path) ==
    [name |-> name,
     path |-> Realpath(Join(Cwd, name)),
     parent_path |-> parent_path,
     frozen |-> FALSE,
     protected |-> FALSE,
     saver |-> "None",
     loader |-> "None",
     inspector |-> "None",
     sampler |-> "None",
     func |-> "None"]

\* File.__init__
NewFile(name, parent_path) ==
    [name |-> name,
     path |-> Realpath(Join(parent_path, name)),
     parent_path |-> parent_path,
     frozen |-> FALSE,
     protected |-> FALSE,
     saver |-> "None",
     loader |-> "None",
     inspector |-> "None",
     sampler |-> "None",
     func |-> "None"]

\* Pipeline.__init__
NewPipeline(name) == [name |-> name, pipe |-> PyNone]

\* variant of FindFile whose scan starts at the second list position
RECURSIVE FindFile_skipFirst(_, _, _)
FindFile_skipFirst(fs, i, attr) ==
    IF i + 1 > Len(fs) THEN 0
    ELSE IF fileObjs[fs[i + 1]].name = attr THEN fs[i + 1]
    ELSE FindFile_skipFirst(fs, i + 1, attr)

\* Folder.__getattr__, lines 81-83: first registered File whose name matches, 0 if none
RECURSIVE FindFile(_, _, _)
FindFile(fs, i, attr) ==
    IF i > Len(fs) THEN 0
    ELSE IF fileObjs[fs[i]].name = attr THEN fs[i]
    ELSE FindFile(fs, i + 1, attr)

Folder_getattr(attr) ==
    LET hit == FindFile(files, 1, attr)
        new == Len(fileObjs) + 1
    IN  IF hit # 0
        THEN /\ ret' = Result("Folder.__getattr__", 0, attr, Ok(FileRef(hit), disk, <<>>))
             /\ UNCHANGED <<fileObjs, files>>
        ELSE IF ~Exists(disk, FolderPath)
        THEN /\ ret' = Result("Folder.__getattr__", 0, attr,
                              Raise("IOError", "parent path", disk, <<>>))
             /\ UNCHANGED <<fileObjs, files>>
        ELSE /\ new <= MaxFiles
             /\ fileObjs' = Append(fileObjs, NewFile(attr, FolderPath))
             /\ files' = Append(files, new)
             /\ ret' = Result("Folder.__getattr__", 0, attr, Ok(FileRef(new), disk, <<>>))

GetAttr ==
    \E attr \in Names :
        /\ Folder_getattr(attr)
        /\ calls' = <<>>
        /\ UNCHANGED <<disk, pipeObjs, pipelines>>

\* variant of DeleteLoop that removes the list head on a name match
RECURSIVE DeleteLoop_removeHead(_, _, _)
DeleteLoop_removeHead(fs, i, name) ==
    IF i > Len(fs) THEN fs
    ELSE IF fileObjs[fs[i]].name = name
         THEN DeleteLoop_removeHead(Tail(fs), i + 1, name)
    ELSE DeleteLoop_removeHead(fs, i + 1, name)

\* Folder.delete: the for loop walks the list by position while remove() shrinks it
RECURSIVE DeleteLoop(_, _, _)
DeleteLoop(fs, i, name) ==
    IF i > Len(fs) THEN fs
    ELSE IF fileObjs[fs[i]].name = name
         THEN DeleteLoop(ListRemove(fs, fs[i]), i + 1, name)
    ELSE DeleteLoop(fs, i + 1, name)

Folder_delete(name) ==
    /\ files' = DeleteLoop(files, 1, name)
    /\ ret' = Result("Folder.delete", 0, name, Ok(PyNone, disk, <<>>))

\* variant of Delete that also takes the deleted Files out of every Pipeline
Delete_dropsMembers ==
    \E name \in Names :
        /\ Folder_delete(name)
        /\ calls' = <<>>
        /\ pipeObjs' = [p \in DOMAIN pipeObjs |->
                IF pipeObjs[p].pipe = PyNone THEN pipeObjs[p]
                ELSE [pipeObjs[p] EXCEPT !.pipe =
                        PyTuple(SelectSeq(@[2], LAMBDA f : fileObjs[f].name # name))]]
        /\ UNCHANGED <<disk, fileObjs, pipelines>>

Delete ==
    \E name \in Names :
        /\ Folder_delete(name)
        /\ calls' = <<>>
        /\ UNCHANGED <<disk, fileObjs, pipeObjs, pipelines>>

\* variant of Folder_getitem without the membership test: a new Pipeline each time
Folder_getitem_alwaysNew(pipe) ==
    LET new == Len(pipeObjs) + 1
    IN  /\ new <= MaxKeys + 1
        /\ pipeObjs' = Append(pipeObjs, NewPipeline(pipe))
        /\ pipelines' = [k \in DOMAIN pipelines \cup {pipe} |->
                            IF k = pipe THEN new ELSE pipelines[k]]
        /\ ret' = Result("Folder.__getitem__", 0, pipe, Ok(PipelineRef(new), disk, <<>>))

\* Folder.__getitem__
Folder_getitem(pipe) ==
    IF pipe \in DOMAIN pipelines
    THEN /\ ret' = Result("Folder.__getitem__", 0, pipe,
                          Ok(PipelineRef(pipelines[pipe]), disk, <<>>))
         /\ UNCHANGED <<pipeObjs, pipelines>>
    ELSE LET new == Len(pipeObjs) + 1
         IN  /\ pipeObjs' = Append(pipeObjs, NewPipeline(pipe))
             /\ pipelines' = [k \in DOMAIN pipelines \cup {pipe} |->
                                 IF k = pipe THEN new ELSE pipelines[k]]
             /\ ret' = Result("Folder.__getitem__", 0, pipe, Ok(PipelineRef(new), disk, <<>>))

GetItem ==
    \E pipe \in Keys :
        /\ Folder_getitem(pipe)
        /\ calls' = <<>>
        /\ UNCHANGED <<disk, fileObjs, files>>

\* Folder.destruct: "for pipeline in self.pipelines" iterates the dict's keys,
\* which are str objects; the first "pipeline.name" is an attribute lookup on a
\* str and raises AttributeError before any del is reached.
StrHasName == FALSE

Folder_destruct(pipe) ==
    IF DOMAIN pipelines = {}
    THEN /\ ret' = Result("Folder.destruct", 0, pipe, Ok(PyNone, disk, <<>>))
         /\ UNCHANGED pipelines
    ELSE IF ~StrHasName
    THEN /\ ret' = Result("Folder.destruct", 0, pipe,
                          Raise("AttributeError", "str.name", disk, <<>>))
         /\ UNCHANGED pipelines
    ELSE /\ ret' = Result("Folder.destruct", 0, pipe, Ok(PyNone, disk, <<>>))
         /\ pipelines' = [k \in DOMAIN pipelines \ {pipe} |-> pipelines[k]]

Destruct ==
    \E pipe \in Keys :
        /\ Folder_destruct(pipe)
        /\ calls' = <<>>
        /\ UNCHANGED <<disk, fileObjs, pipeObjs, files>>

\* folder[key] = (file1, ..., fileN): class Folder defines no __setitem__, so
\* the subscript assignment raises TypeError and nothing is registered.
FolderHasSetitem == FALSE

Folder_setitem(key, fs) ==
    IF ~FolderHasSetitem
    THEN /\ ret' = Result("Folder.__setitem__", 0, <<key, fs>>,
                          Raise("TypeError", "item assignment", disk, <<>>))
         /\ UNCHANGED <<pipeObjs, pipelines>>
    ELSE LET new == Len(pipeObjs) + 1
         IN  /\ pipeObjs' = Append(pipeObjs, [name |-> key, pipe |-> PyTuple(fs)])
             /\ pipelines' = [k \in DOMAIN pipelines \cup {key} |->
                                 IF k = key THEN new ELSE pipelines[k]]
             /\ ret' = Result("Folder.__setitem__", 0, <<key, fs>>, Ok(PyNone, disk, <<>>))

\* tuples of distinct File objects
FileTuples ==
    {fs \in UNION {[1..n -> DOMAIN fileObjs] : n \in 0..MaxPipeLen} :
        \A i, j \in DOMAIN fs : fs[i] = fs[j] => i = j}

SetItem ==
    \E key \in Keys, fs \in FileTuples :
        /\ Folder_setitem(key, fs)
        /\ calls' = <<>>
        /\ UNCHANGED <<disk, fileObjs, files>>

----------------------------------------------------------------------------
(* File *)

\* Callables a script installs with set_func / set_saver / set_loader /
\* set_inspector / set_sampler.  "None" is the unset default of File.__init__.
Funcs == {"inc", "raise_func"}
Savers == {"pic_save", "raise_save"}
Loaders == {"pic_load", "const_load", "raise_load"}
Inspectors == {"ok_inspect", "raise_inspect"}
Samplers == {"ok_sample", "raise_sample"}

CallRec(fn, f, args) == [fn |-> fn, file |-> f, args |-> args]

RECURSIVE SumInputs(_)
SumInputs(inputs) ==
    IF inputs = <<>> THEN 0 ELSE Head(inputs)[2] + SumInputs(Tail(inputs))

\* the producer "inc": one more than the sum of its arguments, as a payload
Inc(inputs) == PyInt((SumInputs(inputs) + 1) % (MaxVal + 1))

\* self.func(*inputs)
CallFunc(d, f, inputs) ==
    LET fn == fileObjs[f].func
        c == <<CallRec("func", f, PyTuple(inputs))>>
    IN  IF fn = "None" THEN Raise("TypeError", "NoneType is not callable", d, <<>>)
        ELSE IF fn = "raise_func" THEN Raise("UserError", "func", d, c)
        ELSE Ok(Inc(inputs), d, c)

\* self.saver(self.path, obj)
CallSaver(d, f, obj) ==
    LET c == <<CallRec("saver", f, <<fileObjs[f].path, obj>>)>>
    IN  IF fileObjs[f].saver = "pic_save"
        THEN [pic_save(d, fileObjs[f].path, obj) EXCEPT !.calls = c]
        ELSE Raise("UserError", "saver", d, c)

\* variant of CallLoader that hands the loader the File's parent_path
CallLoader_parentPath(d, f) ==
    LET c == <<CallRec("loader", f, <<fileObjs[f].parent_path>>)>>
    IN  IF fileObjs[f].loader = "pic_load"
        THEN [pic_load(d, fileObjs[f].parent_path) EXCEPT !.calls = c]
        ELSE IF fileObjs[f].loader = "const_load" THEN Ok(PyInt(0), d, c)
        ELSE Raise("UserError", "loader", d, c)

\* self.loader(self.path)
CallLoader(d, f) ==
    LET c == <<CallRec("loader", f, <<fileObjs[f].path>>)>>
    IN  IF fileObjs[f].loader = "pic_load"
        THEN [pic_load(d, fileObjs[f].path) EXCEPT !.calls = c]
        ELSE IF fileObjs[f].loader = "const_load" THEN Ok(PyInt(0), d, c)
        ELSE Raise("UserError", "loader", d, c)

\* variant of File_save whose except clause raises a new IOError instead of re-raising
File_save_wrapsError(d, f, obj) ==
    IF fileObjs[f].saver = "None"
    THEN Raise("TypeError", "saver has not been set", d, <<>>)
    ELSE LET r == CallSaver(d, f, obj)
         IN  IF r.exc # ""
             THEN Raise("IOError", "Fail to add the file using writer.", r.disk, r.calls)
             ELSE Ok(PyNone, r.disk, r.calls)

\* File.save
File_save(d, f, obj) ==
    IF fileObjs[f].saver = "None"
    THEN Raise("TypeError", "saver has not been set", d, <<>>)
    ELSE LET r == CallSaver(d, f, obj)
         IN  IF r.exc # "" THEN r ELSE Ok(PyNone, r.disk, r.calls)

\* variant of File_load whose guard tests the saver instead of the loader
File_load_testsSaver(d, f) ==
    IF fileObjs[f].saver = "None"
    THEN Raise("TypeError", "loader has not been set", d, <<>>)
    ELSE CallLoader(d, f)

\* File.load
File_load(d, f) ==
    IF fileObjs[f].loader = "None"
    THEN Raise("TypeError", "loader has not been set", d, <<>>)
    ELSE CallLoader(d, f)

\* variant of File_inspect that loads before it tests the inspector
File_inspect_loadsFirst(d, f) ==
    LET l == File_load(d, f)
        c == Append(l.calls, CallRec("inspector", f, <<l.val>>))
    IN  IF l.exc # "" THEN l
        ELSE IF fileObjs[f].inspector = "None"
        THEN Raise("TypeError", "inspector has not been set", d, l.calls)
        ELSE IF fileObjs[f].inspector = "raise_inspect"
        THEN Raise("UserError", "inspector", d, c)
        ELSE Ok(PyNone, d, c)

\* File.inspect
File_inspect(d, f) ==
    IF fileObjs[f].inspector = "None"
    THEN Raise("TypeError", "inspector has not been set", d, <<>>)
    ELSE LET l == File_load(d, f)
             c == Append(l.calls, CallRec("inspector", f, <<l.val>>))
         IN  IF l.exc # "" THEN l
             ELSE IF fileObjs[f].inspector = "raise_inspect"
             THEN Raise("UserError", "inspector", d, c)
             ELSE Ok(PyNone, d, c)

\* File.sample
File_sample(d, f) ==
    IF fileObjs[f].sampler = "None"
    THEN Raise("TypeError", "sampler has not been set", d, <<>>)
    ELSE LET l == File_load(d, f)
             c == Append(l.calls, CallRec("sampler", f, <<l.val>>))
         IN  IF l.exc # "" THEN l
             ELSE IF fileObjs[f].sampler = "raise_sample"
             THEN Raise("UserError", "sampler", d, c)
             ELSE Ok(<<"sample", l.val>>, d, c)

\* variant of File_fit that saves its inputs instead of func's result
File_fit_savesInputs(d, f, inputs) ==
    LET r == CallFunc(d, f, inputs)
        s == File_save(r.disk, f, PyTuple(inputs))
    IN  IF r.exc # "" THEN r
        ELSE IF s.exc # "" THEN [s EXCEPT !.calls = r.calls \o s.calls]
        ELSE Ok(PyNone, s.disk, r.calls \o s.calls)

\* File.fit
File_fit(d, f, inputs) ==
    LET r == CallFunc(d, f, inputs)
        s == File_save(r.disk, f, r.val)
    IN  IF r.exc # "" THEN r
        ELSE IF s.exc # "" THEN [s EXCEPT !.calls = r.calls \o s.calls]
        ELSE Ok(PyNone, s.disk, r.calls \o s.calls)

FileIds == DOMAIN fileObjs

\* one call on a File object: e is the call's effect
FileCall(op, f, args, e) ==
    /\ ret' = Result(op, f, args, e)
    /\ calls' = e.calls
    /\ disk' = e.disk
    /\ UNCHANGED <<fileObjs, pipeObjs, files, pipelines>>

\* one attribute assignment on a File object
FileSet(op, f, field, v) ==
    /\ fileObjs' = [fileObjs EXCEPT ![f] = [@ EXCEPT ![field] = v]]
    /\ ret' = Result(op, f, v, Ok(PyNone, disk, <<>>))
    /\ calls' = <<>>
    /\ UNCHANGED <<disk, pipeObjs, files, pipelines>>

SetFunc == \E f \in FileIds, v \in Funcs : FileSet("File.set_func", f, "func", v)
SetSaver == \E f \in FileIds, v \in Savers : FileSet("File.set_saver", f, "saver", v)
SetLoader == \E f \in FileIds, v \in Loaders : FileSet("File.set_loader", f, "loader", v)
SetInspector == \E f \in FileIds, v \in Inspectors : FileSet("File.set_inspector", f, "inspector", v)
SetSampler == \E f \in FileIds, v \in Samplers : FileSet("File.set_sampler", f, "sampler", v)

Save == \E f \in FileIds, obj \in Payloads : FileCall("File.save", f, obj, File_save(disk, f, obj))
Load == \E f \in FileIds : FileCall("File.load", f, <<>>, File_load(disk, f))
Inspect == \E f \in FileIds : FileCall("File.inspect", f, <<>>, File_inspect(disk, f))
Sample == \E f \in FileIds : FileCall("File.sample", f, <<>>, File_sample(disk, f))
Fit == \E f \in FileIds, inputs \in Inputs : FileCall("File.fit", f, inputs, File_fit(disk, f, inputs))

\* attribute access restricted to the first name: the File operations are
\* explored on one File object, next to whatever the directory already holds
GetFirstAttr ==
    /\ Folder_getattr(NameOf[1])
    /\ calls' = <<>>
    /\ UNCHANGED <<disk, pipeObjs, pipelines>>

----------------------------------------------------------------------------
(* Pipeline *)

\* len(file) at line 239: file is a File, and class File defines no __len__,
\* so the builtin raises TypeError
PyLenOfFile(f) ==
    [exc |-> "TypeError", why |-> "object of type 'File' has no len()", val |-> PyNone]

\* Pipeline.fit, lines 236-247; i is idx + 1, obj the running value
RECURSIVE FitLoop(_, _, _, _, _, _)
FitLoop(d, pipe, i, inputs, obj, cs) ==
    IF i > Len(pipe) THEN Ok(obj, d, cs)
    ELSE LET file == pipe[i]
             n == PyLenOfFile(file)
             l == File_load(d, file)
             r == File_fit(d, file, inputs)
         IN  IF n.exc # "" THEN Raise(n.exc, n.why, d, cs)
             ELSE IF i <= n.val[2] - 1 /\ i + 1 > Len(pipe)
             THEN Raise("IndexError", "tuple index out of range", d, cs)
             ELSE IF i <= n.val[2] - 1 /\ fileObjs[pipe[i + 1]].frozen /\ fileObjs[file].frozen
             THEN FitLoop(d, pipe, i + 1, inputs, obj, cs)
             ELSE IF fileObjs[file].frozen
             THEN IF l.exc # "" THEN [l EXCEPT !.calls = cs \o l.calls]
                  ELSE FitLoop(d, pipe, i + 1, inputs, l.val, cs \o l.calls)
             ELSE IF r.exc # "" THEN [r EXCEPT !.calls = cs \o r.calls]
                  ELSE FitLoop(r.disk, pipe, i + 1, inputs, r.val, cs \o r.calls)

\* variant of Pipeline_fit that tests only the first member for a func
Pipeline_fit_testsFirstOnly(d, p, inputs) ==
    LET pipe == pipeObjs[p].pipe
    IN  IF pipe = PyNone
        THEN Raise("ValueError", "This pipeline is empty.", d, <<>>)
        ELSE IF pipe[2] # <<>> /\ fileObjs[pipe[2][1]].func = "None"
        THEN Raise("ValueError", "doesn't have a function", d, <<>>)
        ELSE FitLoop(d, pipe[2], 1, inputs, PyTuple(inputs), <<>>)

\* variant of Pipeline_fit whose validity test is "not self.pipe"
Pipeline_fit_emptyIsInvalid(d, p, inputs) ==
    LET pipe == pipeObjs[p].pipe
    IN  IF pipe = PyNone \/ pipe = PyTuple(<<>>)
        THEN Raise("ValueError", "This pipeline is empty.", d, <<>>)
        ELSE IF \E i \in DOMAIN pipe[2] : fileObjs[pipe[2][i]].func = "None"
        THEN Raise("ValueError", "doesn't have a function", d, <<>>)
        ELSE FitLoop(d, pipe[2], 1, inputs, PyTuple(inputs), <<>>)

\* Pipeline.fit
Pipeline_fit(d, p, inputs) ==
    LET pipe == pipeObjs[p].pipe
    IN  IF pipe = PyNone
        THEN Raise("ValueError", "This pipeline is empty.", d, <<>>)
        ELSE IF \E i \in DOMAIN pipe[2] : fileObjs[pipe[2][i]].func = "None"
        THEN Raise("ValueError", "doesn't have a function", d, <<>>)
        ELSE FitLoop(d, pipe[2], 1, inputs, PyTuple(inputs), <<>>)

PipelineIds == DOMAIN pipeObjs

\* Pipeline.construct
Construct ==
    \E p \in PipelineIds, fs \in FileTuples :
        /\ pipeObjs' = [pipeObjs EXCEPT ![p].pipe = PyTuple(fs)]
        /\ ret' = Result("Pipeline.construct", p, fs, Ok(PyNone, disk, <<>>))
        /\ calls' = <<>>
        /\ UNCHANGED <<disk, fileObjs, files, pipelines>>

PipelineFit ==
    \E p \in PipelineIds, inputs \in Inputs :
        LET e == Pipeline_fit(disk, p, inputs)
        IN  /\ ret' = Result("Pipeline.fit", p, inputs, e)
            /\ calls' = e.calls
            /\ disk' = e.disk
            /\ UNCHANGED <<fileObjs, pipeObjs, files, pipelines>>

\* Pipeline.construct called with a leading part of the Folder's registered Files
ConstructRegistered ==
    \E p \in PipelineIds, n \in 0..Len(files) :
        /\ n <= MaxPipeLen
        /\ pipeObjs' = [pipeObjs EXCEPT ![p].pipe = PyTuple(SubSeq(files, 1, n))]
        /\ ret' = Result("Pipeline.construct", p, SubSeq(files, 1, n), Ok(PyNone, disk, <<>>))
        /\ calls' = <<>>
        /\ UNCHANGED <<disk, fileObjs, files, pipelines>>

\* file.frozen = True / False, assigned by the calling script
SetFrozen == \E f \in FileIds, v \in BOOLEAN : FileSet("File.frozen", f, "frozen", v)

\* set_func / set_saver with the one producer and the pickle saver
SetFuncInc == \E f \in FileIds : FileSet("File.set_func", f, "func", "inc")
SetSaverPickle == \E f \in FileIds : FileSet("File.set_saver", f, "saver", "pic_save")

\* attribute access to the names in their listed order: the Files a Pipeline
\* is built from are created one after the other, a name is never accessed
\* before the names listed ahead of it
GetNextAttr ==
    /\ Len(fileObjs) < MaxNames
    /\ Folder_getattr(NameOf[Len(fileObjs) + 1])
    /\ calls' = <<>>
    /\ UNCHANGED <<disk, pipeObjs, pipelines>>

\* set_loader with the pickle loader
SetLoaderPickle == \E f \in FileIds : FileSet("File.set_loader", f, "loader", "pic_load")

\* keyed access restricted to the first key: one Pipeline is explored
GetFirstItem ==
    /\ Folder_getitem(KeyOf[1])
    /\ calls' = <<>>
    /\ UNCHANGED <<disk, fileObjs, files>>

----------------------------------------------------------------------------
(* Initial state: Folder(FolderName, ParentPath) has been constructed.  Its  *)
(* directory exists: either just made and empty, or left by an earlier run  *)
(* with a pickled payload under every name.                                 *)

InitPayload == PyInt(0)

Init ==
    /\ disk \in {[p \in AllPaths |-> IF p \in {ParentPath, FolderPath} THEN Dir
                                     ELSE IF p \in FilePaths THEN old
                                     ELSE Absent] :
                    old \in {Absent, RegularFile(PickleDumps(InitPayload))}}
    /\ fileObjs = <<>>
    /\ pipeObjs = <<>>
    /\ files = <<>>
    /\ pipelines = <<>>
    /\ ret = [op |-> "Folder.__init__", self |-> 0, args |-> <<FolderName, ParentPath>>,
              exc |-> "", why |-> "", val |-> FolderRef(FolderName, FolderPath)]
    /\ calls = <<>>

Next ==
    \/ GetAttr
    \/ Delete
    \/ GetItem
    \/ Destruct
    \/ SetItem

Spec == Init /\ [][Next]_vars

NextFile ==
    \/ GetFirstAttr
    \/ SetFunc
    \/ SetSaver
    \/ SetLoader
    \/ SetInspector
    \/ SetSampler
    \/ Save
    \/ Load
    \/ Inspect
    \/ Sample
    \/ Fit

SpecFile == Init /\ [][NextFile]_vars

NextPipeline ==
    \/ GetNextAttr
    \/ SetFuncInc
    \/ SetSaverPickle
    \/ SetFrozen
    \/ GetFirstItem
    \/ Construct
    \/ PipelineFit

SpecPipeline == Init /\ [][NextPipeline]_vars

\* Files that come and go in the registry while a Pipeline holds on to them
NextMembers ==
    \/ GetAttr
    \/ Delete
    \/ SetFuncInc
    \/ Load
    \/ GetFirstItem
    \/ Construct
    \/ PipelineFit

SpecMembers == Init /\ [][NextMembers]_vars

NextFolder ==
    \/ FolderInit
    \/ GetFirstAttr
    \/ SetSaverPickle
    \/ Save

SpecFolder == Init /\ [][NextFolder]_vars

NextStages ==
    \/ GetNextAttr
    \/ SetFunc
    \/ SetSaverPickle
    \/ SetLoaderPickle
    \/ SetFrozen
    \/ GetFirstItem
    \/ Construct
    \/ PipelineFit

SpecStages == Init /\ [][NextStages]_vars

NextKeyed ==
    \/ GetNextAttr
    \/ GetItem
    \/ Destruct
    \/ ConstructRegistered

SpecKeyed == Init /\ [][NextKeyed]_vars

----------------------------------------------------------------------------
(* Properties of the Folder registry, checked under Spec *)

NamedIn(fs, n) == {i \in DOMAIN fs : fileObjs[fs[i]].name = n}

\* C2: with no delete of name n in between, every attribute access to n
\* returns the one File object registered for n; the first access appends a
\* freshly created File and afterwards exactly one registered File is named n.
C2_SameFileInstance ==
    [][ /\ \A n \in Names : \A k \in Range(files) :
              (fileObjs[k].name = n /\ ~(ret'.op = "Folder.delete" /\ ret'.args = n))
              => /\ k \in Range(files')
                 /\ (ret'.op = "Folder.__getattr__" /\ ret'.args = n)
                    => (ret'.val = FileRef(k) /\ files' = files /\ fileObjs' = fileObjs)
        /\ (ret'.op = "Folder.__getattr__" /\ ret'.exc = "")
           => /\ \E i \in DOMAIN files' :
                    /\ ret'.val = FileRef(files'[i])
                    /\ {j \in DOMAIN files' : fileObjs'[files'[j]].name = ret'.args} = {i}
              /\ NamedIn(files, ret'.args) = {}
                 => /\ files' = Append(files, Len(fileObjs) + 1)
                    /\ ret'.val = FileRef(Len(fileObjs) + 1)
                    /\ fileObjs'[Len(fileObjs) + 1].name = ret'.args
      ]_vars

\* a second access returned a File that was not the most recently created one
C2_Witness ==
    /\ ret.op = "Folder.__getattr__"
    /\ ret.exc = ""
    /\ Len(files) >= 2
    /\ ret.val = FileRef(files[1])

\* C8: folder[key] = (file1, ..., fileN) registers under key a Pipeline whose
\* member sequence is exactly those Files, and folder[key] then returns it.
C8_SetItemRegistersPipeline ==
    ret.op = "Folder.__setitem__"
    => /\ ret.exc = ""
       /\ ret.args[1] \in DOMAIN pipelines
       /\ pipeObjs[pipelines[ret.args[1]]].pipe = PyTuple(ret.args[2])

\* C9: Folder.delete(name) removes the File named name and leaves the other
\* registered Files, their order, the pipelines and the disk unchanged; it
\* never raises, also when no registered File has that name.
C9_DeleteFrame ==
    [][ ret'.op = "Folder.delete"
        => /\ ret'.exc = ""
           /\ files' = SelectSeq(files, LAMBDA k : fileObjs[k].name # ret'.args)
           /\ UNCHANGED <<disk, fileObjs, pipelines, pipeObjs>>
      ]_vars

\* a File with a file on disk at its path was unregistered, another File stays
C9_Witness ==
    /\ ret.op = "Folder.delete"
    /\ \E f \in DOMAIN fileObjs :
          /\ fileObjs[f].name = ret.args
          /\ f \notin Range(files)
          /\ disk[fileObjs[f].path] # Absent
    /\ NamedIn(files, ret.args) = {}
    /\ Len(files) >= 1
    /\ DOMAIN pipelines # {}

\* C10: Folder.destruct(key) removes key from the pipelines mapping, leaves
\* the other entries unchanged, is a no-op for an absent key, never raises.
C10_DestructRemovesKey ==
    [][ ret'.op = "Folder.destruct"
        => /\ ret'.exc = ""
           /\ pipelines' = [k \in DOMAIN pipelines \ {ret'.args} |-> pipelines[k]]
           /\ pipeObjs' = pipeObjs
      ]_vars

----------------------------------------------------------------------------
(* Properties of File, checked under SpecFile *)

\* C3: File.fit on a File with func and saver set calls func once with the
\* inputs, then the saver once with (path, func's result), and returns None;
\* with the pickle saver and loader a following load() returns func's result.
C3_FitComputesThenSaves ==
    [][ /\ (/\ ret'.op = "File.fit"
            /\ fileObjs[ret'.self].func = "inc"
            /\ fileObjs[ret'.self].saver # "None")
           => /\ calls' = <<CallRec("func", ret'.self, PyTuple(ret'.args)),
                            CallRec("saver", ret'.self,
                                    <<Realpath(Join(FolderPath, fileObjs[ret'.self].name)),
                                      Inc(ret'.args)>>)>>
              /\ ret'.exc = "" => ret'.val = PyNone
              /\ fileObjs[ret'.self].saver = "pic_save" => ret'.exc = ""
        /\ (/\ ret.op = "File.fit"
            /\ ret.exc = ""
            /\ fileObjs[ret.self].saver = "pic_save"
            /\ ret'.op = "File.load"
            /\ ret'.self = ret.self
            /\ fileObjs[ret.self].loader = "pic_load")
           => (ret'.exc = "" /\ ret'.val = Inc(ret.args))
      ]_vars

\* fit(0) has produced 1 and pickled it over what the directory held before
C3_Witness ==
    /\ ret.op = "File.fit"
    /\ ret.exc = ""
    /\ ret.args = <<PyInt(0)>>
    /\ Len(calls) = 2
    /\ fileObjs[ret.self].loader = "pic_load"
    /\ disk[fileObjs[ret.self].path] = RegularFile(PickleDumps(PyInt(1)))

\* C4: with the pickle saver and loader, load() right after save(obj) returns
\* obj; save hands the saver (path, obj); every load() invokes the loader on
\* the File's path, and two loads in a row return the same object.
C4_SaveLoadRoundTrip ==
    [][ /\ (ret'.op = "File.save" /\ fileObjs[ret'.self].saver # "None")
           => calls' = <<CallRec("saver", ret'.self,
                                 <<Realpath(Join(FolderPath, fileObjs[ret'.self].name)),
                                   ret'.args>>)>>
        /\ (ret'.op = "File.load" /\ fileObjs[ret'.self].loader # "None")
           => calls' = <<CallRec("loader", ret'.self,
                                 <<Realpath(Join(FolderPath, fileObjs[ret'.self].name))>>)>>
        /\ (/\ ret'.op = "File.load"
            /\ fileObjs[ret'.self].loader = "pic_load"
            /\ ret.self = ret'.self
            /\ ret.exc = "")
           => /\ (ret.op = "File.save" /\ fileObjs[ret.self].saver = "pic_save")
                 => (ret'.exc = "" /\ ret'.val = ret.args)
              /\ ret.op = "File.load" => (ret'.exc = "" /\ ret'.val = ret.val)
      ]_vars

\* a load returned 1 on a File that was never fitted: the 1 was saved
C4_Witness ==
    /\ ret.op = "File.load"
    /\ ret.exc = ""
    /\ fileObjs[ret.self].loader = "pic_load"
    /\ fileObjs[ret.self].saver = "pic_save"
    /\ fileObjs[ret.self].func = "None"
    /\ ret.val = PyInt(1)
    /\ Len(calls) = 1

PluginOf(op) ==
    CASE op = "File.save" -> "saver"
      [] op = "File.load" -> "loader"
      [] op = "File.inspect" -> "inspector"
      [] op = "File.sample" -> "sampler"

FileOps == {"File.save", "File.load", "File.inspect", "File.sample"}

\* C5: save / load / inspect / sample on a File whose saver / loader /
\* inspector / sampler is unset raises the configuration error before any
\* plug-in callable is invoked and changes neither the File nor the disk.
C5_UnsetPluginFails ==
    [][ (ret'.op \in FileOps /\ fileObjs[ret'.self][PluginOf(ret'.op)] = "None")
        => /\ ret'.exc = "TypeError"
           /\ ret'.why = PluginOf(ret'.op) \o " has not been set"
           /\ calls' = <<>>
           /\ UNCHANGED <<disk, fileObjs>>
      ]_vars

\* inspect failed for want of an inspector although the loader could have read
C5_Witness ==
    /\ ret.op = "File.inspect"
    /\ ret.exc = "TypeError"
    /\ fileObjs[ret.self].inspector = "None"
    /\ fileObjs[ret.self].loader = "pic_load"
    /\ disk[fileObjs[ret.self].path] # Absent

SaverSucceeds(d, f) ==
    fileObjs[f].saver = "pic_save" /\ d[fileObjs[f].path] # Dir
LoaderSucceeds(d, f) ==
    \/ fileObjs[f].loader = "const_load"
    \/ fileObjs[f].loader = "pic_load" /\ d[fileObjs[f].path] \notin {Absent, Dir}

\* C6 as stated: each of save / load / inspect / sample succeeds once its own
\* plug-in is set to a callable that does not raise.
C6_OwnPluginSuffices ==
    /\ (ret.op = "File.save" /\ SaverSucceeds(disk, ret.self)) => ret.exc = ""
    /\ (ret.op = "File.load" /\ LoaderSucceeds(disk, ret.self)) => ret.exc = ""
    /\ (ret.op = "File.inspect" /\ fileObjs[ret.self].inspector = "ok_inspect")
       => ret.exc = ""
    /\ (ret.op = "File.sample" /\ fileObjs[ret.self].sampler = "ok_sample")
       => ret.exc = ""

\* C6 amended: save succeeds once the saver, load once the loader is set to a
\* callable that does not raise; inspect and sample succeed once the
\* inspector, respectively the sampler, AND the loader are so set.
C6_PluginAndLoaderSuffice ==
    [][ /\ (ret'.op = "File.save" /\ SaverSucceeds(disk, ret'.self)) => ret'.exc = ""
        /\ (ret'.op = "File.load" /\ LoaderSucceeds(disk, ret'.self)) => ret'.exc = ""
        /\ (/\ ret'.op = "File.inspect"
            /\ fileObjs[ret'.self].inspector = "ok_inspect"
            /\ LoaderSucceeds(disk, ret'.self))
           => ret'.exc = ""
        /\ (/\ ret'.op = "File.sample"
            /\ fileObjs[ret'.self].sampler = "ok_sample"
            /\ LoaderSucceeds(disk, ret'.self))
           => ret'.exc = ""
      ]_vars

\* sample succeeded on a File with the sampler and the loader set, no saver
C6_Witness ==
    /\ ret.op = "File.sample"
    /\ ret.exc = ""
    /\ fileObjs[ret.self].saver = "None"
    /\ fileObjs[ret.self].loader = "pic_load"
    /\ Len(calls) = 2

----------------------------------------------------------------------------
(* Properties of Pipeline.fit, checked under SpecPipeline *)

Members(p) == pipeObjs[p].pipe[2]

RECURSIVE FitCalls(_, _)
FitCalls(members, inputs) ==
    IF members = <<>> THEN <<>>
    ELSE <<CallRec("func", Head(members), PyTuple(inputs)),
           CallRec("saver", Head(members), <<fileObjs[Head(members)].path, Inc(inputs)>>)>>
         \o FitCalls(Tail(members), inputs)

\* C1: on a constructed Pipeline with at least one member, every member
\* having a func (and a saver) and not frozen, Pipeline.fit(*inputs) fits each
\* member once, in order, each with the original inputs, and returns what the
\* last member's fit returned (None).
C1_FitsEveryMemberInOrder ==
    (/\ ret.op = "Pipeline.fit"
     /\ pipeObjs[ret.self].pipe # PyNone
     /\ Members(ret.self) # <<>>
     /\ \A i \in DOMAIN Members(ret.self) :
           /\ fileObjs[Members(ret.self)[i]].func = "inc"
           /\ fileObjs[Members(ret.self)[i]].saver = "pic_save"
           /\ ~fileObjs[Members(ret.self)[i]].frozen)
    => /\ ret.exc = ""
       /\ calls = FitCalls(Members(ret.self), ret.args)
       /\ ret.val = PyNone

\* C7: Pipeline.fit raises ValueError when the Pipeline was never constructed
\* and when some member, at any position, has no func; no func, saver or
\* loader has been invoked by then and nothing is written.
C7_FitPreconditions ==
    [][ ret'.op = "Pipeline.fit"
        => /\ pipeObjs[ret'.self].pipe = PyNone
              => (ret'.exc = "ValueError" /\ ret'.why = "This pipeline is empty.")
           /\ (/\ pipeObjs[ret'.self].pipe # PyNone
               /\ \E i \in DOMAIN Members(ret'.self) :
                     fileObjs[Members(ret'.self)[i]].func = "None")
              => (ret'.exc = "ValueError" /\ ret'.why = "doesn't have a function")
           /\ ret'.exc = "ValueError" => (calls' = <<>> /\ UNCHANGED <<disk, fileObjs, pipeObjs>>)
      ]_vars

\* the member without a func was the last of two, the first one had a func
C7_Witness ==
    /\ ret.op = "Pipeline.fit"
    /\ ret.exc = "ValueError"
    /\ pipeObjs[ret.self].pipe # PyNone
    /\ Len(Members(ret.self)) = 2
    /\ fileObjs[Members(ret.self)[1]].func = "inc"
    /\ fileObjs[Members(ret.self)[1]].saver = "pic_save"
    /\ fileObjs[Members(ret.self)[2]].func = "None"

----------------------------------------------------------------------------
(* Properties of keyed access, checked under SpecKeyed *)

\* C11: with no removal of the key in between, every folder[key] returns the
\* one Pipeline object registered for key, with whatever member sequence
\* construct gave it; the first access registers a new, unconstructed
\* Pipeline and the mapping keeps a single entry per key.
C11_SamePipelineInstance ==
    [][ /\ \A k \in DOMAIN pipelines :
              ~(ret'.op = "Folder.destruct" /\ ret'.args = k)
              => /\ k \in DOMAIN pipelines'
                 /\ pipelines'[k] = pipelines[k]
                 /\ (ret'.op = "Folder.__getitem__" /\ ret'.args = k)
                    => /\ ret'.val = PipelineRef(pipelines[k])
                       /\ pipeObjs' = pipeObjs
                       /\ pipelines' = pipelines
        /\ (ret'.op = "Folder.__getitem__" /\ ret'.args \notin DOMAIN pipelines)
           => /\ ret'.val = PipelineRef(Len(pipeObjs) + 1)
              /\ pipeObjs' = Append(pipeObjs, [name |-> ret'.args, pipe |-> PyNone])
              /\ DOMAIN pipelines' = DOMAIN pipelines \cup {ret'.args}
              /\ pipelines'[ret'.args] = Len(pipeObjs) + 1
        /\ \A k1, k2 \in DOMAIN pipelines' :
              pipelines'[k1] = pipelines'[k2] => k1 = k2
      ]_vars

\* a repeated access returned the Pipeline that construct had given two Files
C11_Witness ==
    /\ ret.op = "Folder.__getitem__"
    /\ ret.exc = ""
    /\ Cardinality(DOMAIN pipelines) = 2
    /\ pipeObjs[ret.val[2]].pipe = PyTuple(<<1, 2>>)
    /\ pipelines[ret.args] = ret.val[2]

----------------------------------------------------------------------------
(* Adapter failures, checked under SpecFile *)

\* C12: when the saver raises in File.save, or the loader in File.load, that
\* very exception reaches the caller, the adapter has been invoked exactly
\* once, and no attribute of the File has changed.
C12_AdapterErrorPropagates ==
    [][ /\ (ret'.op = "File.save" /\ fileObjs[ret'.self].saver = "raise_save")
           => /\ ret'.exc = "UserError" /\ ret'.why = "saver"
              /\ calls' = <<CallRec("saver", ret'.self,
                                    <<fileObjs[ret'.self].path, ret'.args>>)>>
              /\ UNCHANGED <<fileObjs, disk>>
        /\ (ret'.op = "File.load" /\ fileObjs[ret'.self].loader = "raise_load")
           => /\ ret'.exc = "UserError" /\ ret'.why = "loader"
              /\ calls' = <<CallRec("loader", ret'.self, <<fileObjs[ret'.self].path>>)>>
              /\ UNCHANGED <<fileObjs, disk>>
        /\ (/\ ret'.op = "File.load"
            /\ fileObjs[ret'.self].loader = "pic_load"
            /\ disk[fileObjs[ret'.self].path] = Absent)
           => /\ ret'.exc = "FileNotFoundError" /\ ret'.why = "open"
              /\ calls' = <<CallRec("loader", ret'.self, <<fileObjs[ret'.self].path>>)>>
              /\ UNCHANGED <<fileObjs, disk>>
      ]_vars

\* the saver raised on a File whose other plug-ins are all set
C12_Witness ==
    /\ ret.op = "File.save"
    /\ ret.exc = "UserError"
    /\ Len(calls) = 1
    /\ fileObjs[ret.self].loader = "pic_load"
    /\ fileObjs[ret.self].func = "inc"

----------------------------------------------------------------------------
(* The stages of Pipeline.fit, checked under SpecStages *)

Constructed(p) == pipeObjs[p].pipe # PyNone
Member(p, i) == fileObjs[Members(p)[i]]
Fittable(p, i) ==
    Member(p, i).func = "inc" /\ Member(p, i).saver = "pic_save" /\ ~Member(p, i).frozen
Loadable(p, i) ==
    /\ Member(p, i).func # "None"
    /\ Member(p, i).frozen
    /\ Member(p, i).loader = "pic_load"
    /\ disk[Member(p, i).path] \notin {Absent, Dir}

\* C13: the first failing stage aborts Pipeline.fit.  Stated for a func that
\* raises at position i behind members that fit: the func's error leaves
\* Pipeline.fit, the members before i have been fitted and their output is on
\* disk, and nothing of a member after i has been invoked.
C13_FirstFailingStageAborts ==
    \A i \in 1..MaxPipeLen + 1 :
        (/\ ret.op = "Pipeline.fit"
         /\ Constructed(ret.self)
         /\ i \in DOMAIN Members(ret.self)
         /\ \A j \in DOMAIN Members(ret.self) : Member(ret.self, j).func # "None"
         /\ \A j \in 1..(i - 1) : Fittable(ret.self, j)
         /\ Member(ret.self, i).func = "raise_func"
         /\ ~Member(ret.self, i).frozen)
        => /\ ret.exc = "UserError"
           /\ ret.why = "func"
           /\ calls = FitCalls(SubSeq(Members(ret.self), 1, i - 1), ret.args)
                      \o <<CallRec("func", Members(ret.self)[i], PyTuple(ret.args))>>
           /\ \A j \in 1..(i - 1) :
                 disk[Member(ret.self, j).path] = RegularFile(PickleDumps(Inc(ret.args)))

\* C16: frozen-load rule.  Stated for a frozen last member behind members
\* that fit: the last member's loader is invoked, its func and saver are not,
\* and Pipeline.fit returns what the loader read.
C16_FrozenMemberIsLoaded ==
    (/\ ret.op = "Pipeline.fit"
     /\ Constructed(ret.self)
     /\ Members(ret.self) # <<>>
     /\ \A j \in 1..(Len(Members(ret.self)) - 1) : Fittable(ret.self, j)
     /\ Loadable(ret.self, Len(Members(ret.self))))
    => LET n == Len(Members(ret.self))
       IN  /\ ret.exc = ""
           /\ ret.val = PickleLoads(disk[Member(ret.self, n).path][2])
           /\ calls = FitCalls(SubSeq(Members(ret.self), 1, n - 1), ret.args)
                      \o <<CallRec("loader", Members(ret.self)[n],
                                   <<Member(ret.self, n).path>>)>>

\* C17: skip rule.  Stated for a Pipeline of two or more members that are all
\* frozen: every member that has a next member is skipped, so none of its
\* func, saver or loader is invoked, and the fit goes on to load the last one.
C17_FrozenPairIsSkipped ==
    (/\ ret.op = "Pipeline.fit"
     /\ Constructed(ret.self)
     /\ Len(Members(ret.self)) >= 2
     /\ \A j \in DOMAIN Members(ret.self) :
           Member(ret.self, j).func # "None" /\ Member(ret.self, j).frozen
     /\ Loadable(ret.self, Len(Members(ret.self))))
    => /\ ret.exc = ""
       /\ \A c \in Range(calls) :
             c.file = Members(ret.self)[Len(Members(ret.self))] /\ c.fn = "loader"

----------------------------------------------------------------------------
(* Folder construction, checked under SpecFolder *)

ArgPath(args) ==
    Realpath(Join(IF args[2] = PyNone THEN Cwd ELSE args[2], args[1]))

\* C14: constructing a Folder again with the same name and parent never
\* fails, changes nothing on disk and only reports that the path exists; the
\* same holds for any construction whose resolved path already exists.
C14_ConstructionIdempotent ==
    [][ ret'.op = "Folder.__init__"
        => /\ (ret.op = "Folder.__init__" /\ ret.exc = "" /\ ret'.args = ret.args)
              => /\ ret'.exc = ""
                 /\ ret'.why = "Already exists"
                 /\ ret'.val = ret.val
                 /\ disk' = disk
           /\ (/\ ret'.args[2] # MissingPath
               /\ disk[ArgPath(ret'.args)] # Absent)
              => /\ ret'.exc = ""
                 /\ ret'.why = "Already exists"
                 /\ ret'.val = FolderRef(ret'.args[1], ArgPath(ret'.args))
                 /\ disk' = disk
      ]_vars

\* the first Folder was constructed again over a directory holding a saved 1
C14_Witness ==
    /\ ret.op = "Folder.__init__"
    /\ ret.args = <<FolderName, PyNone>>
    /\ ret.why = "Already exists"
    /\ \E p \in FilePaths : disk[p] = RegularFile(PickleDumps(PyInt(1)))

\* C15: after every successful Folder construction the Folder's path is a
\* directory on disk, whatever existed under the parent before.
C15_PathIsDirectory ==
    (ret.op = "Folder.__init__" /\ ret.exc = "")
    => disk[ret.val[2]] = Dir

----------------------------------------------------------------------------
(* Registry invariant, checked under Spec *)

\* C18: in every state reached by attribute accesses and deletes no two
\* registered Files have the same name, and every registered File's path is
\* the Folder's path joined with the File's name.
C18_UniqueNamesAndPaths ==
    /\ \A i, j \in DOMAIN files :
          fileObjs[files[i]].name = fileObjs[files[j]].name => i = j
    /\ \A i \in DOMAIN files :
          fileObjs[files[i]].path = Join(FolderPath, fileObjs[files[i]].name)

\* a name was deleted and accessed again: the File registered under it is the
\* second one created with that name, and the first one is no longer registered
C18_Witness ==
    /\ Len(files) = 1
    /\ \E f \in DOMAIN fileObjs :
          f \notin Range(files) /\ fileObjs[f].name = fileObjs[files[1]].name

----------------------------------------------------------------------------
(* The empty Pipeline, checked under SpecPipeline *)

\* C20: Pipeline.fit(*inputs) on a Pipeline constructed with no Files raises
\* nothing, invokes nothing, writes nothing and returns the tuple of inputs.
C20_EmptyTupleReturnsInputs ==
    [][ /\ (ret'.op = "Pipeline.fit" /\ pipeObjs[ret'.self].pipe = PyTuple(<<>>))
            => /\ ret'.exc = ""
               /\ ret'.val = PyTuple(ret'.args)
               /\ calls' = <<>>
               /\ UNCHANGED <<disk, fileObjs, pipeObjs>>
        /\ (ret'.op = "Pipeline.fit" /\ pipeObjs[ret'.self].pipe = PyNone)
            => /\ ret'.exc = "ValueError"
               /\ ret'.why = "This pipeline is empty."
      ]_vars

\* fit(1) on a Pipeline constructed with no Files returned (1,)
C20_Witness ==
    /\ ret.op = "Pipeline.fit"
    /\ pipeObjs[ret.self].pipe = PyTuple(<<>>)
    /\ ret.args = <<PyInt(1)>>
    /\ ret.val = PyTuple(<<PyInt(1)>>)

----------------------------------------------------------------------------
(* Pipeline membership, checked under SpecMembers *)

\* the File ids a Pipeline's member sequence holds
MemberIds(p) == IF pipeObjs[p].pipe = PyNone THEN {} ELSE Range(pipeObjs[p].pipe[2])

\* C19: only Pipeline.construct changes a Pipeline's member sequence:
\* Pipeline.fit, the File operations, attribute access and Folder.delete leave
\* it as it is.  A member whose name was deleted from the Folder stays in the
\* Pipeline with its state, and the next access to that name returns another
\* File object, newly created with default state and registered in its place.
C19_MembersChangeOnlyByConstruct ==
    [][ /\ ret'.op # "Pipeline.construct"
            => \A p \in DOMAIN pipeObjs : pipeObjs'[p].pipe = pipeObjs[p].pipe
        /\ \A p \in DOMAIN pipeObjs : \A f \in MemberIds(p) :
             (/\ ret'.op = "Folder.__getattr__"
              /\ ret'.args = fileObjs[f].name
              /\ f \notin Range(files))
             => /\ f \in MemberIds(p)'
                /\ fileObjs'[f] = fileObjs[f]
                /\ ret'.exc = ""
                /\ ret'.val # FileRef(f)
                /\ FindFile(files, 1, ret'.args) = 0
                   => /\ ret'.val = FileRef(Len(fileObjs'))
                      /\ Len(fileObjs') = Len(fileObjs) + 1
                      /\ fileObjs'[Len(fileObjs')] = NewFile(ret'.args, FolderPath)
                      /\ Len(fileObjs') \in Range(files')
      ]_vars

\* a Pipeline member with a function set was deleted from the Folder, and the
\* access to its name that followed returned a File without one
C19_Witness ==
    /\ ret.op = "Folder.__getattr__"
    /\ \E p \in DOMAIN pipeObjs : \E f \in MemberIds(p) :
          /\ f \notin Range(files)
          /\ fileObjs[f].name = ret.args
          /\ fileObjs[f].func = "inc"
          /\ ret.val = FileRef(Len(fileObjs))
          /\ Len(fileObjs) # f
          /\ fileObjs[Len(fileObjs)].func = "None"

====
